---- MODULE Spec2Model ----
(***************************************************************************)
(* helios (src/main.go): a report cycle that queries the ledger binary,    *)
(* parses its textual output and writes points to InfluxDB.                *)
(*                                                                         *)
(* Text is a sequence of bytes, each byte a one-character string (the      *)
(* bytes of a multi-byte rune are named "xE2", "x82", "xAC").  A float64   *)
(* is the pair <<m, e>> standing for m / 10^e, kept normalised; the        *)
(* amounts of the model are all exactly representable at that precision,   *)
(* so float64 rounding is not modelled.  The results of a division by zero *)
(* are the IEEE values "NaN", "+Inf" and "-Inf".                           *)
(***************************************************************************)
EXTENDS Integers, Sequences, FiniteSets, TLC

VARIABLES
    \* ---- process state of one run (init, then main)
    pc,             \* position of the run
    username, authToken, influxToken, sentryToken,   \* flags (main.go:20-27)
    sentryEnabled,  \* main.go:29
    sentryClient,   \* TRUE once sentry.Init has bound a client to the hub
    alerts,         \* sentry.CaptureMessage calls, in order
    printed,        \* fmt.Println(err) in bail
    exitCode,       \* -1 while running; 0, 1 (bail) or 2 (runtime panic)
    basisIraOutput, basisTaxOutput, marketIraOutput, marketTaxOutput,
    errIra, errTax,
    costBasisMap,   \* the map getCostBasis returned, or Nil
    costErr,        \* err of getCostBasis, "unset" before the call
    ranged,         \* tickers the range loop has already visited
    skipped,        \* tickers whose market lookup returned an error
    sink,           \* calls on the InfluxDB write API and client, in order
    \* ---- one call of a parsing function on one command result
    out,            \* bytes CombinedOutput returned
    cmdErr,         \* err CombinedOutput returned
    fn,             \* the function applied, "none" before the call
    ret             \* what it returned

runVars == <<pc, username, authToken, influxToken, sentryToken, sentryEnabled,
             sentryClient, alerts, printed, exitCode, basisIraOutput,
             basisTaxOutput, marketIraOutput, marketTaxOutput, errIra, errTax,
             costBasisMap, costErr, ranged, skipped, sink>>
callVars == <<out, cmdErr, fn, ret>>
vars == <<runVars, callVars>>

Nil == "nil"

(***************************************************************************)
(* Bytes and the strings package                                           *)
(***************************************************************************)
Digits == <<"0", "1", "2", "3", "4", "5", "6", "7", "8", "9">>

IsDigit(c) == \E i \in 1..10 : Digits[i] = c

DigitVal(c) == (CHOOSE i \in 1..10 : Digits[i] = c) - 1

\* unicode.IsSpace on the single-byte white space
IsSpace(c) == c \in {" ", "\t", "\n", "\r", "\f"}

\* s[i:] and s[i:j] of Go, 0-based, for in-range bounds
SliceFrom(s, i) == SubSeq(s, i + 1, Len(s))
Slice(s, i, j) == SubSeq(s, i + 1, j)

HasPrefixAt(s, sep, i) ==
    /\ i + Len(sep) - 1 <= Len(s)
    /\ SubSeq(s, i, i + Len(sep) - 1) = sep

\* strings.Index, 1-based, 0 when sep does not occur
Index(s, sep) ==
    LET hits == {i \in 1..Len(s) : HasPrefixAt(s, sep, i)}
    IN  IF hits = {} THEN 0
        ELSE CHOOSE i \in hits : \A j \in hits : i <= j

\* strings.Split for a non-empty separator
RECURSIVE Split(_, _)
Split(s, sep) ==
    LET i == Index(s, sep)
    IN  IF i = 0 THEN <<s>>
        ELSE <<SubSeq(s, 1, i - 1)>> \o Split(SubSeq(s, i + Len(sep), Len(s)), sep)

\* strings.TrimSpace
TrimSpace(s) ==
    LET keep == {i \in 1..Len(s) : ~IsSpace(s[i])}
    IN  IF keep = {} THEN <<>>
        ELSE LET lo == CHOOSE i \in keep : \A j \in keep : i <= j
                 hi == CHOOSE i \in keep : \A j \in keep : j <= i
             IN  SubSeq(s, lo, hi)

\* the commas are left in place
ReplaceAllCommasKept(s) == s

\* strings.ReplaceAll(s, ",", "")
RECURSIVE ReplaceAllCommas(_)
ReplaceAllCommas(s) ==
    IF s = <<>> THEN <<>>
    ELSE IF Head(s) = "," THEN ReplaceAllCommas(Tail(s))
    ELSE <<Head(s)>> \o ReplaceAllCommas(Tail(s))

\* strings.Join(lines, "\n")
RECURSIVE Join(_)
Join(lines) ==
    IF lines = <<>> THEN <<>>
    ELSE IF Len(lines) = 1 THEN lines[1]
    ELSE lines[1] \o <<"\n">> \o Join(Tail(lines))

(***************************************************************************)
(* float64 and strconv.ParseFloat                                          *)
(***************************************************************************)
RECURSIVE Normal(_, _)
Normal(m, e) ==
    IF m = 0 THEN <<0, 0>>
    ELSE IF e > 0 /\ m % 10 = 0 THEN Normal(m \div 10, e - 1)
    ELSE <<m, e>>

RECURSIVE Pow10(_)
Pow10(e) == IF e = 0 THEN 1 ELSE 10 * Pow10(e - 1)

Zero == <<0, 0>>

FMul(a, b) == Normal(a[1] * b[1], a[2] + b[2])

FSub(a, b) ==
    LET e == IF a[2] > b[2] THEN a[2] ELSE b[2]
    IN  Normal(a[1] * Pow10(e - a[2]) - b[1] * Pow10(e - b[2]), e)

\* a / b of float64: a quotient when b is not zero, else NaN or an infinity
FDiv(a, b) ==
    IF b # Zero THEN [num |-> a, den |-> b]
    ELSE IF a = Zero THEN "NaN"
    ELSE IF a[1] > 0 THEN "+Inf"
    ELSE "-Inf"

RECURSIVE DigitsVal(_)
DigitsVal(s) ==
    IF s = <<>> THEN 0
    ELSE 10 * DigitsVal(SubSeq(s, 1, Len(s) - 1)) + DigitVal(s[Len(s)])

\* strconv.ParseFloat on the decimal forms: [sign] digits [. digits], with a
\* digit on at least one side of the point.  Anything else over the bytes of
\* the model is a syntax error.
ParseFloat(s) ==
    LET signed == s # <<>> /\ s[1] \in {"-", "+"}
        body == IF signed THEN Tail(s) ELSE s
        dot == Index(body, <<".">>)
        ip == IF dot = 0 THEN body ELSE SubSeq(body, 1, dot - 1)
        fp == IF dot = 0 THEN <<>> ELSE SubSeq(body, dot + 1, Len(body))
        wellFormed == /\ \A i \in 1..Len(ip) : IsDigit(ip[i])
                      /\ \A i \in 1..Len(fp) : IsDigit(fp[i])
                      /\ Len(ip) + Len(fp) > 0
        mag == DigitsVal(ip \o fp)
    IN  IF ~wellFormed THEN [val |-> Zero, err |-> "strconv.ParseFloat"]
        ELSE [val |-> Normal(IF signed /\ s[1] = "-" THEN 0 - mag ELSE mag, Len(fp)),
              err |-> Nil]

(***************************************************************************)
(* The three parsing functions.  A result is [val, err, panic]: panic is   *)
(* TRUE when the call ends in a runtime panic instead of returning.        *)
(***************************************************************************)
Returns(v, e) == [val |-> v, err |-> e, panic |-> FALSE]
Panics == [val |-> Nil, err |-> Nil, panic |-> TRUE]

\* the line count is checked against 3
TooFewLinesOffByOne(lines) == Len(lines) < 3

\* line 298 of returnLineSummary
TooFewLines(lines) == Len(lines) < 4

\* the line above the one the code reads
SummaryLineOffByOne(lines) == lines[Len(lines) - 2]

\* the line returnLineSummary reads: lines[len(lines)-2]
SummaryLine(lines) == lines[Len(lines) - 1]

returnLineSummary(o, e) ==
    IF e # Nil THEN Returns(Zero, "exec")
    ELSE LET lines == Split(o, <<"\n">>)
         IN  IF TooFewLines(lines) THEN Returns(Zero, "len(lines)")
             ELSE LET sum == TrimSpace(SummaryLine(lines))
                  IN  IF Len(sum) < 1 THEN Returns(Zero, "len(sum)")
                      ELSE LET p == ParseFloat(ReplaceAllCommas(SliceFrom(sum, 1)))
                           IN  IF p.err # Nil THEN Returns(Zero, p.err)
                               ELSE Returns(p.val, Nil)

returnSingleLine(o, e) ==
    IF e # Nil THEN Returns(Zero, "exec")
    ELSE LET line == TrimSpace(o)
             first == Split(line, <<" ">>)[1]
         IN  IF Len(first) < 1 THEN Panics      \* ""[1:]: slice bounds out of range
             ELSE LET p == ParseFloat(ReplaceAllCommas(SliceFrom(first, 1)))
                  IN  IF p.err # Nil THEN Returns(Zero, p.err)
                      ELSE Returns(p.val, Nil)

\* one row of the table: lines 197-211 of getCostBasis
RowTokens(line) == Split(line, <<" ">>)
TooFewTokens(values) == Len(values) < 3

\* values[2][2 : len(values[2])-1] is in range
CostSliceInRange(v) == 2 <= Len(v) - 1

\* res[ticker] = v
MapPut(res, ticker, v) ==
    [t \in DOMAIN res \cup {ticker} |-> IF t = ticker THEN v ELSE res[t]]

\* the line after the dash line is kept as a row
BodyRowsKeepFirst(lines) == Slice(lines, 0, Len(lines) - 1)

\* lines[1 : len(lines)-1] of line 194
BodyRows(lines) == Slice(lines, 1, Len(lines) - 1)

RECURSIVE CostRows(_, _)
CostRows(lines, res) ==
    IF lines = <<>> THEN Returns(res, Nil)
    ELSE LET values == RowTokens(Head(lines))
         IN  IF TooFewTokens(values) THEN Returns(Nil, "could not parse")
             ELSE LET q == ParseFloat(values[1])
                  IN  IF q.err # Nil THEN Returns(Nil, "could not parse")
                      ELSE IF ~CostSliceInRange(values[3]) THEN Panics
                      ELSE LET b == ParseFloat(Slice(values[3], 2, Len(values[3]) - 1))
                           IN  IF b.err # Nil THEN Returns(Nil, "could not parse")
                               ELSE CostRows(Tail(lines),
                                             MapPut(res, values[2], FMul(q.val, b.val)))

Dashes == <<"-", "-", "-", "-", "-", "-", "\n">>

getCostBasis(o, e) ==
    IF e # Nil THEN Returns(Nil, "exec")
    ELSE LET costBody == Split(o, Dashes)
         IN  IF Len(costBody) < 2 THEN Returns(Nil, "could not parse")
             ELSE LET lines == Split(costBody[2], <<"\n">>)
                  IN  IF Len(lines) < 2 THEN Returns(Nil, "could not parse")
                      ELSE CostRows(BodyRows(lines), <<>>)

(***************************************************************************)
(* Command outputs the ledger binary can produce                           *)
(***************************************************************************)
MaxFill == 3     \* lines of a balance report above the amount line
MaxRows == 2     \* rows of the cost-basis table after its first line

Filler == <<"A", "s", "s", "e", "t", "s">>
Foo == <<"f", "o", "o">>
Empty == <<>>

\* an amount line: a currency symbol, a minus sign before or after it or none,
\* an integer part, an optional decimal part; val is the number it denotes
Symbols == {<<"$">>, <<"xE2", "x82", "xAC">>}
Signs == {"none", "before", "after"}
IntParts == {[text |-> <<"7">>, units |-> 7],
             [text |-> <<"1", ",", "2", "3", "4">>, units |-> 1234]}
FracParts == {[text |-> <<>>, m |-> 0, e |-> 0],
              [text |-> <<".", "5">>, m |-> 5, e |-> 1],
              [text |-> <<".", "5", "6">>, m |-> 56, e |-> 2]}

AmountLine(sym, sign, ip, fp, padded) ==
    LET minus == <<"-">>
        core == (IF sign = "before" THEN minus ELSE <<>>) \o sym
                \o (IF sign = "after" THEN minus ELSE <<>>) \o ip.text \o fp.text
    IN  IF padded THEN <<" ", " ">> \o core \o <<" ">> ELSE core

AmountVal(sign, ip, fp) ==
    LET mag == ip.units * Pow10(fp.e) + fp.m
    IN  Normal(IF sign = "none" THEN mag ELSE 0 - mag, fp.e)

Amounts ==
    {[line |-> AmountLine(sym, sign, ip, fp, padded), val |-> AmountVal(sign, ip, fp),
      symbol |-> sym, sign |-> sign] :
        sym \in Symbols, sign \in Signs, ip \in IntParts, fp \in FracParts,
        padded \in BOOLEAN}

Amount == <<"$", "1", ",", "2", "3", "4", ".", "5", "6">>
Padded == <<" ", " ", "$", "1", ",", "2", "3", "4", " ">>

LineChoices ==
    {a.line : a \in Amounts}
        \cup {Empty, <<" ", " ">>, <<"$">>, <<"5">>, Foo, Filler}

\* what follows the amount line: nothing, the final newline, an empty line and
\* the final newline, or one more line
Endings == {<<>>, <<Empty>>, <<Empty, Empty>>, <<Foo>>, <<Foo, Empty>>}

FillLines(k) == [i \in 1..k |-> Filler]

BalanceTexts ==
    {Join(FillLines(k) \o <<a>> \o t) :
        k \in 0..MaxFill, a \in LineChoices, t \in Endings}

RowAapl == <<"1", "0", " ", "A", "A", "P", "L", " ", "{", "$", "1", "5", "0", ".", "0", "0", "}">>
RowAapl2 == <<"3", " ", "A", "A", "P", "L", " ", "{", "$", "1", ".", "5", "}">>
RowMsft == <<"0", " ", "M", "S", "F", "T", " ", "{", "$", "2", "0", "}">>
RowAt == <<"1", "0", " ", "A", "A", "P", "L", " ", "@", " ", "$", "1", "5", "0", ".", "0", "0">>
RowAtPadded == <<" ", " ">> \o RowAt
RowShort == <<"V", "T", "I">>

RowChoices == {RowAapl, RowAapl2, RowMsft, RowAt, RowAtPadded, RowShort, <<>>}

RECURSIVE SeqsUpTo(_, _)
SeqsUpTo(S, n) ==
    IF n = 0 THEN {<<>>}
    ELSE LET shorter == SeqsUpTo(S, n - 1)
         IN  shorter \cup {Append(r, x) : r \in shorter, x \in S}

Header == <<"h", "e", "a", "d", "e", "r">>
DashLine == <<"-", "-", "-", "-", "-", "-">>

\* a header, the dash line, a first line, rows, and zero to two final newlines
TableTexts ==
    {Join(<<Header, DashLine, f>> \o rows \o t) :
        f \in RowChoices, rows \in SeqsUpTo(RowChoices, MaxRows),
        t \in {<<>>, <<<<>>>>, <<<<>>, <<>>>>}}

Quote == <<" ", "$", "1", ",", "5", "0", "0", ".", "0", "0", " ", " ", "A", "\n">>

Texts == BalanceTexts \cup TableTexts \cup {Quote, Header}

(***************************************************************************)
(* One call of a parsing function                                          *)
(***************************************************************************)
RunIdle ==
    /\ pc = "init"
    /\ username = "" /\ authToken = "" /\ influxToken = "" /\ sentryToken = ""
    /\ sentryEnabled = TRUE /\ sentryClient = FALSE
    /\ alerts = <<>> /\ printed = <<>> /\ exitCode = -1
    /\ basisIraOutput = Zero /\ basisTaxOutput = Zero
    /\ marketIraOutput = Zero /\ marketTaxOutput = Zero
    /\ errIra = Nil /\ errTax = Nil
    /\ costBasisMap = Nil /\ costErr = "unset"
    /\ ranged = {} /\ skipped = {} /\ sink = <<>>

InitCall ==
    /\ RunIdle
    /\ out \in Texts
    /\ cmdErr \in {Nil, "exit status 1"}
    /\ fn = "none"
    /\ ret = Nil

CallReturnLineSummary ==
    /\ fn = "none"
    /\ fn' = "returnLineSummary"
    /\ ret' = returnLineSummary(out, cmdErr)
    /\ UNCHANGED <<out, cmdErr, runVars>>

CallReturnSingleLine ==
    /\ fn = "none"
    /\ fn' = "returnSingleLine"
    /\ ret' = returnSingleLine(out, cmdErr)
    /\ UNCHANGED <<out, cmdErr, runVars>>

CallGetCostBasis ==
    /\ fn = "none"
    /\ fn' = "getCostBasis"
    /\ ret' = getCostBasis(out, cmdErr)
    /\ UNCHANGED <<out, cmdErr, runVars>>

NextCall == CallReturnLineSummary \/ CallReturnSingleLine \/ CallGetCostBasis

SpecCall == InitCall /\ [][NextCall]_vars

(***************************************************************************)
(* One run of the program: init, then main                                 *)
(***************************************************************************)
Flags == {"", "set"}

Cmd(o, e) == [out |-> o, err |-> e]

\* what `ledger bal <account>` can answer to a mandatory-account query
BalanceOutputs ==
    {Cmd(Join(<<Filler, Filler, Filler, Amount, <<>>>>), Nil),
     Cmd(Join(<<Filler, Filler, Filler, Padded, <<>>>>), Nil),
     Cmd(Join(<<Filler, Foo, <<>>>>), Nil),
     Cmd(Join(<<Filler, Filler, Filler, Foo, <<>>>>), Nil),
     Cmd(Foo, "exit status 1")}

RowVti == <<"2", " ", "V", "T", "I", " ", "{", "$", "1", "0", "}">>

\* what `ledger bal Assets:Investments --average-lot-prices` can answer
CostBasisOutputs ==
    {Cmd(Join(<<Header, DashLine, Filler, RowAapl, RowMsft, RowVti, <<>>>>), Nil),
     Cmd(Join(<<Header, DashLine, Filler, RowAapl, RowVti, <<>>>>), Nil),
     Cmd(Join(<<Header, DashLine, Filler, RowMsft, <<>>>>), Nil),
     Cmd(Join(<<Header, DashLine, Filler, <<>>>>), Nil),
     Cmd(Join(<<Header, DashLine, RowAtPadded, <<>>, <<>>>>), Nil),
     Cmd(Join(<<Header, DashLine, Filler, RowAt, <<>>>>), Nil),
     Cmd(Join(<<Header, RowAapl, <<>>>>), Nil),
     Cmd(Foo, "exit status 1")}

QuoteZero == <<"$", "0", "\n">>

\* what `ledger -V bal Allocation:Equities:<TICKER>` can answer
QuoteOutputs ==
    {Cmd(Quote, Nil), Cmd(QuoteZero, Nil), Cmd(Foo, Nil), Cmd(<<>>, Nil),
     Cmd(Foo, "exit status 1")}

Init ==
    /\ pc = "init"
    /\ username \in Flags /\ authToken \in Flags /\ influxToken \in Flags
    /\ sentryToken \in Flags
    /\ sentryEnabled = TRUE
    /\ sentryClient = FALSE
    /\ alerts = <<>> /\ printed = <<>> /\ exitCode = -1
    /\ basisIraOutput = Zero /\ basisTaxOutput = Zero
    /\ marketIraOutput = Zero /\ marketTaxOutput = Zero
    /\ errIra = Nil /\ errTax = Nil
    /\ costBasisMap = Nil /\ costErr = "unset"
    /\ ranged = {} /\ skipped = {} /\ sink = <<>>
    /\ out = <<>> /\ cmdErr = Nil /\ fn = "none" /\ ret = Nil

\* sentry.CaptureMessage: the hub forwards to its client when one is bound
CaptureMessage(log, msg) == Append(log, [msg |-> msg, sent |-> sentryClient])

bail(err, code) ==
    /\ alerts' = IF sentryEnabled THEN CaptureMessage(alerts, err) ELSE alerts
    /\ printed' = Append(printed, err)
    /\ exitCode' = code
    /\ pc' = "exited"

\* a runtime panic: the process dies with status 2, no deferred call runs
panic ==
    /\ exitCode' = 2
    /\ pc' = "exited"
    /\ UNCHANGED <<alerts, printed>>

locals == <<basisIraOutput, basisTaxOutput, marketIraOutput, marketTaxOutput,
            errIra, errTax, costBasisMap, costErr, ranged, skipped>>
flags == <<username, authToken, influxToken, sentryToken>>

init ==
    /\ pc = "init"
    /\ IF username = "" \/ authToken = "" \/ influxToken = ""
       THEN /\ bail("must provide username and auth token", 1)
            /\ UNCHANGED <<sentryEnabled, sentryClient>>
       ELSE IF sentryToken = ""
       THEN /\ sentryEnabled' = FALSE
            /\ pc' = "setupRepo"
            /\ UNCHANGED <<sentryClient, alerts, printed, exitCode>>
       ELSE \E initOk \in BOOLEAN :
                IF initOk
                THEN /\ sentryClient' = TRUE
                     /\ pc' = "setupRepo"
                     /\ UNCHANGED <<sentryEnabled, alerts, printed, exitCode>>
                ELSE /\ bail("sentry.Init", 1)
                     /\ UNCHANGED <<sentryEnabled, sentryClient>>
    /\ UNCHANGED <<flags, locals, sink, callVars>>

setupRepo ==
    /\ pc = "setupRepo"
    /\ \E open \in {"ok", "ErrRepositoryNotExists", "err"},
          clone \in {"ok", "err"}, worktree \in {"ok", "err"},
          pull \in {"ok", "NoErrAlreadyUpToDate", "err"} :
            IF open = "err" \/ (open = "ErrRepositoryNotExists" /\ clone = "err")
            THEN bail("git open", 1)
            ELSE IF worktree = "err" THEN bail("git worktree", 1)
            ELSE IF pull = "err" THEN bail("git pull", 1)
            ELSE /\ pc' = "basis"
                 /\ UNCHANGED <<alerts, printed, exitCode>>
    /\ UNCHANGED <<flags, sentryEnabled, sentryClient, locals, sink, callVars>>

\* the second error is not looked at
MandatoryErrIraOnly(eIra, eTax) == IF eIra # Nil THEN eIra ELSE Nil

\* lines 103-107 and 119-123: the error main bails with, Nil to go on
MandatoryErr(eIra, eTax) ==
    IF eIra # Nil THEN eIra ELSE IF eTax # Nil THEN eTax ELSE Nil

basisQueries ==
    /\ pc = "basis"
    /\ \E a \in BalanceOutputs, b \in BalanceOutputs :
        LET ira == returnLineSummary(a.out, a.err)
            tax == returnLineSummary(b.out, b.err)
        IN  /\ basisIraOutput' = ira.val /\ errIra' = ira.err
            /\ basisTaxOutput' = tax.val /\ errTax' = tax.err
            /\ IF MandatoryErr(ira.err, tax.err) # Nil
               THEN bail(MandatoryErr(ira.err, tax.err), 1)
               ELSE /\ pc' = "prices"
                    /\ UNCHANGED <<alerts, printed, exitCode>>
    /\ UNCHANGED <<flags, sentryEnabled, sentryClient, marketIraOutput,
                   marketTaxOutput, costBasisMap, costErr, ranged, skipped,
                   sink, callVars>>

updatePriceDb ==
    /\ pc = "prices"
    /\ \E isMarketHours \in BOOLEAN, updated \in BOOLEAN :
        IF isMarketHours /\ ~updated
        THEN bail("tdaLedgerUpdate", 1)
        ELSE /\ pc' = "market"
             /\ UNCHANGED <<alerts, printed, exitCode>>
    /\ UNCHANGED <<flags, sentryEnabled, sentryClient, locals, sink, callVars>>

marketQueries ==
    /\ pc = "market"
    /\ \E a \in BalanceOutputs, b \in BalanceOutputs :
        LET ira == returnLineSummary(a.out, a.err)
            tax == returnLineSummary(b.out, b.err)
        IN  /\ marketIraOutput' = ira.val /\ errIra' = ira.err
            /\ marketTaxOutput' = tax.val /\ errTax' = tax.err
            /\ IF MandatoryErr(ira.err, tax.err) # Nil
               THEN bail(MandatoryErr(ira.err, tax.err), 1)
               ELSE /\ pc' = "costBasis"
                    /\ UNCHANGED <<alerts, printed, exitCode>>
    /\ UNCHANGED <<flags, sentryEnabled, sentryClient, basisIraOutput,
                   basisTaxOutput, costBasisMap, costErr, ranged, skipped,
                   sink, callVars>>

\* lines 130-134: the client and write API are created, then the table is read
costBasis ==
    /\ pc = "costBasis"
    /\ \E c \in CostBasisOutputs :
        LET r == getCostBasis(c.out, c.err)
        IN  IF r.panic
            THEN /\ panic
                 /\ UNCHANGED <<costBasisMap, costErr>>
            ELSE /\ costBasisMap' = r.val
                 /\ costErr' = r.err
                 /\ pc' = "range"
                 /\ UNCHANGED <<alerts, printed, exitCode>>
    /\ UNCHANGED <<flags, sentryEnabled, sentryClient, basisIraOutput,
                   basisTaxOutput, marketIraOutput, marketTaxOutput, errIra,
                   errTax, ranged, skipped, sink, callVars>>

\* lines 135-136: the tickers the loop ranges over
Ranged(m, err) == IF err = Nil THEN DOMAIN m ELSE {}

\* lines 149-153
SecurityPoint(ticker, basis, value) ==
    [account |-> ticker, basis |-> basis, market |-> value,
     gainPercent |-> FDiv(FSub(value, basis), basis)]

WritePoint(s, p) == Append(s, [call |-> "WritePoint", point |-> p])

\* one iteration of the range loop, in the order the map yields its keys
rangeTicker ==
    /\ pc = "range"
    /\ \E ticker \in Ranged(costBasisMap, costErr) \ ranged :
       \E q \in QuoteOutputs :
        LET r == returnSingleLine(q.out, q.err)
        IN  IF r.panic
            THEN /\ panic
                 /\ UNCHANGED <<ranged, skipped, sink>>
            ELSE /\ ranged' = ranged \cup {ticker}
                 /\ IF r.err # Nil
                    THEN /\ skipped' = skipped \cup {ticker}
                         /\ sink' = sink
                    ELSE /\ skipped' = skipped
                         /\ sink' = WritePoint(sink,
                                SecurityPoint(ticker, costBasisMap[ticker], r.val))
                 /\ UNCHANGED <<pc, alerts, printed, exitCode>>
    /\ UNCHANGED <<flags, sentryEnabled, sentryClient, basisIraOutput,
                   basisTaxOutput, marketIraOutput, marketTaxOutput, errIra,
                   errTax, costBasisMap, costErr, callVars>>

\* the account tags of lines 159 and 166
Ira == <<"i", "r", "a">>
Tax == <<"t", "a", "x">>

\* lines 126-127 and 158-170
AccountPoint(account, basis, market) ==
    [account |-> account, basis |-> basis, market |-> market,
     gain |-> FSub(market, basis)]

\* the point of the taxable account is not written
MandatoryPointsIraOnly(s) ==
    WritePoint(s, AccountPoint(Ira, basisIraOutput, marketIraOutput))

MandatoryPoints(s) ==
    WritePoint(WritePoint(s, AccountPoint(Ira, basisIraOutput, marketIraOutput)),
               AccountPoint(Tax, basisTaxOutput, marketTaxOutput))

writeMandatory ==
    /\ pc = "range"
    /\ ranged = Ranged(costBasisMap, costErr)
    /\ sink' = MandatoryPoints(sink)
    /\ pc' = "flush"
    /\ UNCHANGED <<flags, sentryEnabled, sentryClient, alerts, printed,
                   exitCode, locals, callVars>>

\* the write API is not flushed
FlushDropped(s) == s

\* line 173
Flush(s) == Append(s, [call |-> "Flush", point |-> Nil])

flush ==
    /\ pc = "flush"
    /\ sink' = Flush(sink)
    /\ pc' = "close"
    /\ UNCHANGED <<flags, sentryEnabled, sentryClient, alerts, printed,
                   exitCode, locals, callVars>>

\* line 175, then main returns
close ==
    /\ pc = "close"
    /\ sink' = Append(sink, [call |-> "Close", point |-> Nil])
    /\ exitCode' = 0
    /\ pc' = "exited"
    /\ UNCHANGED <<flags, sentryEnabled, sentryClient, alerts, printed,
                   locals, callVars>>

Next ==
    \/ init
    \/ setupRepo
    \/ basisQueries
    \/ updatePriceDb
    \/ marketQueries
    \/ costBasis
    \/ rangeTicker
    \/ writeMandatory
    \/ flush
    \/ close

Spec == Init /\ [][Next]_vars

(***************************************************************************)
(* Properties of the parsing functions (SpecCall).  The text is read here  *)
(* by the positions of its newline bytes, not through Split.               *)
(***************************************************************************)
Newlines(t) == {i \in 1..Len(t) : t[i] = "\n"}

\* the pieces between newline bytes, in order: one more than there are newlines
Pieces(t) ==
    LET nl == Newlines(t)
        n == Cardinality(nl)
        pos(k) == CHOOSE i \in nl : Cardinality({j \in nl : j < i}) = k - 1
    IN  [k \in 1..(n + 1) |->
            SubSeq(t, IF k = 1 THEN 1 ELSE pos(k - 1) + 1,
                      IF k = n + 1 THEN Len(t) ELSE pos(k) - 1)]

\* lines as a reader counts them: a final newline ends the last line
TextLineCount(t) ==
    Cardinality(Newlines(t)) + (IF t # <<>> /\ t[Len(t)] # "\n" THEN 1 ELSE 0)

SecondToLast(t) == Pieces(t)[Len(Pieces(t)) - 1]

AllSpace(s) == \A i \in 1..Len(s) : s[i] \in {" ", "\t", "\n", "\r", "\f"}

Structural(r) == ~r.panic /\ r.err \in {"len(lines)", "len(sum)"} /\ r.val = Zero

Gives(r, v) == ~r.panic /\ r.err = Nil /\ r.val = v
Fails(r, e) == ~r.panic /\ r.err = e

Summarised == fn = "returnLineSummary" /\ cmdErr = Nil

\* C3 as stated: a structural error, never a number, for every output of fewer
\* than 4 lines, outputs of 3 or fewer text lines that end with a newline
\* included, and for every output whose second-to-last line is blank.
C3_Original ==
    Summarised /\ (TextLineCount(out) < 4
                   \/ (Len(Pieces(out)) >= 2 /\ AllSpace(SecondToLast(out))))
        => Structural(ret)

\* C3, amended: returnLineSummary returns a structural error (the len(lines)
\* or the len(sum) error) and no number for every output with fewer than 3
\* newlines (fewer than 4 pieces) and for every output whose second-to-last
\* piece is blank; an output of 3 text lines and a final newline is not such
\* an output.
C3_FewPiecesOrBlankIsStructural ==
    Summarised /\ (Cardinality(Newlines(out)) < 3 \/ AllSpace(SecondToLast(out)))
        => Structural(ret)

\* two text lines and a final newline ("foo\nbar\n") are rejected for their count
C3_Witness ==
    /\ Summarised
    /\ Cardinality(Newlines(out)) = 2 /\ out[Len(out)] = "\n"
    /\ ret.err = "len(lines)"

AmountAt(line) == CHOOSE a \in Amounts : a.line = line
IsAmount(line) == \E a \in Amounts : a.line = line

\* the amounts the code accepts: a one-byte symbol first, the sign after it
Leading(a) == Len(a.symbol) = 1 /\ a.sign # "before"

\* C4 as stated: for every output of at least 4 lines whose second-to-last line
\* is a well-formed amount, with or without a minus sign, returnLineSummary
\* returns the number left after removing the symbol and the commas.
C4_Original ==
    Summarised /\ Len(Pieces(out)) >= 4 /\ IsAmount(SecondToLast(out))
        => Gives(ret, AmountAt(SecondToLast(out)).val)

\* C4, amended: when the second-to-last piece of an output of at least 4
\* pieces is, white space aside, a one-byte currency symbol, an optional
\* minus sign, digits with optional commas and an optional decimal part,
\* returnLineSummary returns exactly that number; an amount whose minus sign
\* precedes the symbol or whose symbol is a multi-byte character is rejected
\* with a number-format error.
C4_LeadingSymbolAmountParsed ==
    Summarised /\ Len(Pieces(out)) >= 4 /\ IsAmount(SecondToLast(out))
        => LET a == AmountAt(SecondToLast(out))
           IN  IF Leading(a) THEN Gives(ret, a.val)
               ELSE Fails(ret, "strconv.ParseFloat")

\* a negative amount with thousands separators and a decimal part is parsed
C4_Witness ==
    /\ Summarised /\ Len(Pieces(out)) >= 4
    /\ IsAmount(SecondToLast(out))
    /\ AmountAt(SecondToLast(out)).sign = "after"
    /\ Gives(ret, <<-123456, 2>>)

EndsWith(t, suffix) ==
    Len(t) >= Len(suffix) /\ SubSeq(t, Len(t) - Len(suffix) + 1, Len(t)) = suffix

\* two or more lines, then the line $1,234.56
AmountThird(t, after) ==
    /\ EndsWith(t, <<"\n">> \o Amount \o after)
    /\ Cardinality(Newlines(t)) >= 2 + Len(after)

\* C5 as stated: two or more lines, the amount line, an empty line and the
\* final newline ("...\n...\n$1,234.56\n\n") give 1234.56 and no error.
C5_Original ==
    Summarised /\ AmountThird(out, <<"\n", "\n">>)
        => Gives(ret, <<123456, 2>>)

\* C5, amended: two or more lines, the amount line and the final newline
\* ("...\n...\n$1,234.56\n") give 1234.56; with an empty line between the
\* amount line and the final newline the call returns the len(sum) error.
C5_AmountBeforeFinalNewline ==
    /\ Summarised /\ AmountThird(out, <<"\n">>)
            => Gives(ret, <<123456, 2>>)
    /\ Summarised /\ AmountThird(out, <<"\n", "\n">>)
            => Fails(ret, "len(sum)")

\* exactly two lines above the amount line, and the amount is returned
C5_Witness ==
    /\ Summarised /\ AmountThird(out, <<"\n">>)
    /\ Cardinality(Newlines(out)) = 3
    /\ Gives(ret, <<123456, 2>>)

Aapl == <<"A", "A", "P", "L">>
Msft == <<"M", "S", "F", "T">>

ScenarioTable == Join(<<Header, DashLine, RowAtPadded, Empty, Empty>>)

Tabled == fn = "getCostBasis" /\ cmdErr = Nil

\* a header, the dash line, one more line, rows, and the final newline
IsTable(t) ==
    LET p == Pieces(t)
    IN  Len(p) >= 4 /\ p[1] = Header /\ p[2] = DashLine /\ p[Len(p)] = Empty

RowsOf(t) == SubSeq(Pieces(t), 4, Len(Pieces(t)) - 1)

\* rows of the form <quantity> <ticker> {$<unit-cost>} and what each denotes
LotRows == {RowAapl, RowAapl2, RowMsft}
LotEntry(row) ==
    CASE row = RowAapl -> [ticker |-> Aapl, total |-> <<1500, 0>>]
      [] row = RowAapl2 -> [ticker |-> Aapl, total |-> <<45, 1>>]
      [] row = RowMsft -> [ticker |-> Msft, total |-> <<0, 0>>]

\* rows with fewer than 3 tokens
ShortRows == {RowShort, Empty}

LastRowOf(rows, t) ==
    CHOOSE i \in 1..Len(rows) :
        /\ LotEntry(rows[i]).ticker = t
        /\ \A j \in 1..Len(rows) : LotEntry(rows[j]).ticker = t => j <= i

ExpectedMap(rows) ==
    [t \in {LotEntry(rows[i]).ticker : i \in 1..Len(rows)} |->
        LotEntry(rows[LastRowOf(rows, t)]).total]

\* C6 as stated: rows <quantity> <ticker> @ <unit-cost> after the dash line
\* give one entry per row, "header\n------\n  10 AAPL @ $150.00\n\n" gives
\* {AAPL: 1500.0}, and a row of fewer than 3 tokens fails the whole call.
C6_Original ==
    /\ Tabled /\ out = ScenarioTable
            => Gives(ret, [t \in {Aapl} |-> <<1500, 0>>])
    /\ Tabled /\ Len(Pieces(out)) >= 3 /\ Pieces(out)[2] = DashLine
        /\ (\E i \in 3..(Len(Pieces(out)) - 1) : Pieces(out)[i] = RowShort)
            => ret.err # Nil

\* C6, amended: the line after the dash line is dropped; when the rows after
\* it, up to the final newline, have the form <quantity> <ticker> {$<unit-cost>}
\* getCostBasis returns one entry per ticker, the quantity times the unit cost
\* of the ticker's last row; when one of them has fewer than 3 tokens the call
\* fails and returns no map.  The stated table has no such row and fails.
C6_RowsAfterFirstLine ==
    /\ Tabled /\ IsTable(out) /\ (\A i \in 1..Len(RowsOf(out)) : RowsOf(out)[i] \in LotRows)
            => Gives(ret, ExpectedMap(RowsOf(out)))
    /\ Tabled /\ IsTable(out)
        /\ (\A i \in 1..Len(RowsOf(out)) : RowsOf(out)[i] \in LotRows \cup ShortRows)
        /\ (\E i \in 1..Len(RowsOf(out)) : RowsOf(out)[i] \in ShortRows)
            => Fails(ret, "could not parse")
    /\ Tabled /\ out = ScenarioTable => Fails(ret, "could not parse")

\* two rows of one ticker after a first line: the last row's total is kept
C6_Witness ==
    /\ Tabled /\ IsTable(out)
    /\ RowsOf(out) = <<RowAapl, RowAapl2>>
    /\ Gives(ret, [t \in {Aapl} |-> <<45, 1>>])

(***************************************************************************)
(* Properties of a run (Spec)                                              *)
(***************************************************************************)
Calls(name) == {i \in 1..Len(sink) : sink[i].call = name}
PointsFor(account) ==
    {i \in Calls("WritePoint") : sink[i].point.account = account}

\* C1: when a mandatory-account query fails to run or to parse, the run ends
\* through bail with exit code 1, and nothing was written or flushed.
C1_MandatoryFailureAborts ==
    errIra # Nil \/ errTax # Nil
        => /\ pc = "exited" /\ exitCode = 1
           /\ printed \in {<<errIra>>, <<errTax>>}
           /\ sink = <<>>

\* the taxable account's market query fails after three good queries
C1_Witness ==
    /\ basisIraOutput # Zero /\ basisTaxOutput # Zero /\ marketIraOutput # Zero
    /\ errIra = Nil /\ errTax = "strconv.ParseFloat"
    /\ exitCode = 1

\* C2 as stated: whatever tickers getCostBasis returned and whichever of their
\* market queries fail, the run ends with one point per other ticker, none for
\* a failing one, the two mandatory points and a flush, and not through bail.
C2_Claim ==
    pc = "exited" /\ costErr = Nil
        => /\ exitCode = 0
           /\ \A t \in DOMAIN costBasisMap :
                Cardinality(PointsFor(t)) = IF t \in skipped THEN 0 ELSE 1
           /\ Cardinality(PointsFor(Ira)) = 1
           /\ Cardinality(PointsFor(Tax)) = 1
           /\ Calls("Flush") # {}

\* what holds of the runs in which no market query panics
C2_UnlessPanic ==
    pc = "exited" /\ costErr = Nil /\ exitCode # 2
        => /\ exitCode = 0
           /\ \A t \in DOMAIN costBasisMap :
                Cardinality(PointsFor(t)) = IF t \in skipped THEN 0 ELSE 1
           /\ Cardinality(PointsFor(Ira)) = 1
           /\ Cardinality(PointsFor(Tax)) = 1
           /\ Calls("Flush") # {}

\* C7 as stated: no point is written whose gain-percent comes from a division
\* by a zero basis.
C7_Claim ==
    \A i \in Calls("WritePoint") :
        "gainPercent" \in DOMAIN sink[i].point
            => sink[i].point.gainPercent \notin {"NaN", "+Inf", "-Inf"}

\* C8: a run that exits with 0 has called Flush after its last WritePoint and
\* before Close; a run that ends through bail has never called Flush.
C8_FlushOnSuccessOnly ==
    /\ exitCode = 0
        => /\ Len(sink) >= 2
           /\ sink[Len(sink)].call = "Close"
           /\ sink[Len(sink) - 1].call = "Flush"
           /\ \A i \in 1..(Len(sink) - 2) : sink[i].call = "WritePoint"
    /\ exitCode = 1 => printed # <<>> /\ Calls("Flush") = {}

\* a successful run that wrote per-security points before the mandatory ones
C8_Witness ==
    exitCode = 0 /\ Cardinality(Calls("WritePoint")) >= 4

\* C9 as stated: a cost-basis table that cannot be read or parsed is fatal,
\* the run ends with a non-zero status and writes no metrics.
C9_Original ==
    costErr \notin {Nil, "unset"} => exitCode # 0 /\ Calls("WritePoint") = {}

\* C9, amended: when the cost-basis command fails or getCostBasis returns a
\* parse error the run goes on: it skips the per-security loop, writes the two
\* mandatory-account points, flushes, closes and exits with status 0.
C9_CostBasisErrorSkipsLoop ==
    costErr \notin {Nil, "unset"}
        => /\ exitCode \in {-1, 0}
           /\ printed = <<>>
           /\ \A i \in Calls("WritePoint") : sink[i].point.account \in {Ira, Tax}
           /\ pc = "exited"
                => /\ Len(sink) = 4
                   /\ PointsFor(Ira) = {1} /\ PointsFor(Tax) = {2}
                   /\ Calls("Flush") = {3} /\ Calls("Close") = {4}

\* the table had no dash line, and the run ended with status 0
C9_Witness ==
    costErr = "could not parse" /\ exitCode = 0

\* C10 as stated: on every fatal error, flag validation in init included, the
\* alerting sink is sent the error text when a token is configured, and is not
\* called at all when none is.
C10_Claim ==
    exitCode = 1
        => IF sentryToken # ""
           THEN alerts # <<>> /\ alerts[Len(alerts)] = [msg |-> printed[1], sent |-> TRUE]
           ELSE alerts = <<>>

\* what holds of the fatal errors of main, after init has returned
C10_AfterInit ==
    exitCode = 1 /\ printed \notin {<<"must provide username and auth token">>,
                                    <<"sentry.Init">>}
        => IF sentryToken # ""
           THEN alerts = <<[msg |-> printed[1], sent |-> TRUE]>>
           ELSE alerts = <<>>

====
